---- MODULE Spec2Model ----
(***************************************************************************)
(* A model of photinia's operations module (photinia/ops.py) and utility   *)
(* module (photinia/utils/utils.py).                                       *)
(*                                                                         *)
(* Every function of the two modules is synchronous and owns no state, so  *)
(* each is an operator computed the way its code computes it, applied by   *)
(* an action that records the call's arguments (args) and its outcome      *)
(* (ret).  The two loops the properties speak of, the framework's scan     *)
(* inside setup_sequence and a caller's loop around print_progress, are    *)
(* taken one iteration per action.                                         *)
(***************************************************************************)
EXTENDS Integers, Sequences, FiniteSets, TLC

VARIABLES
    pc,      \* "idle", "scan" (inside tf.scan), "loop" (progress loop), "once", "done"
    args,    \* the arguments of the call in progress or completed
    ret,     \* the call's outcome: Return(v) or Raise(exc, msg)
    step,    \* scan: elements consumed so far; progress loop: last current_loop
    state,   \* scan: the accumulator (the recurrent state)
    outs,    \* scan: the outputs produced so far, one per consumed element
    stdout   \* progress loop: what print has written, in order

vars == <<pc, args, ret, step, state, outs, stdout>>

(***************************************************************************)
(* Bounds of the model.                                                    *)
(***************************************************************************)
MaxVal == 2          \* scalar inputs and tensor fill offsets range over 0..MaxVal
MaxWidgets == 3      \* longest widget list
MaxRank == 3         \* highest tensor rank given to transpose_sequence
MaxDim == 2          \* largest extent of an axis given to transpose_sequence
MaxSeqLen == 3       \* longest sequence given to setup_sequence
MaxBatch == 2        \* largest batch given to setup_sequence
MaxStateSize == 2    \* largest cell.state_size
MaxDims == 5         \* largest dims given to one_hot
MaxIndexLen == 2     \* longest index list given to one_hot
MaxLoops == 6        \* largest num_loops of a progress loop
MaxInterval == 4     \* largest interval of a progress loop
MaxPairs == 2        \* longest (grad, var) pair list
MaxNorm == 6         \* largest max_norm

(***************************************************************************)
(* Outcomes of a call: a returned value or a raised exception.             *)
(***************************************************************************)
Return(v) == [st |-> "ok", v |-> v]
Raise(exc, msg) == [st |-> "raise", exc |-> exc, msg |-> msg]
RaiseAbout(exc, msg, obj) == [st |-> "raise", exc |-> exc, msg |-> msg, obj |-> obj]
NoValue == [st |-> "none"]

(***************************************************************************)
(* Python objects that occur as widgets and widget arguments.              *)
(***************************************************************************)
Fn(name) == [tag |-> "fn", name |-> name]
Int_(n) == [tag |-> "int", val |-> n]
None == [tag |-> "none"]
Tuple_(items) == [tag |-> "tuple", items |-> items]
List_(items) == [tag |-> "list", items |-> items]

callable(w) == w.tag = "fn"
IsTupleOrList(w) == w.tag \in {"tuple", "list"}

(***************************************************************************)
(* Tensors: a shape and one integer per index tuple (1-based indices).     *)
(* A scalar is the tensor of shape <<>>.                                   *)
(***************************************************************************)
RECURSIVE Indices(_)
Indices(shape) ==
    IF shape = <<>> THEN {<<>>}
    ELSE {<<i>> \o rest : i \in 1..Head(shape), rest \in Indices(Tail(shape))}

Tensor(shape, data) == [tag |-> "tensor", shape |-> shape, data |-> data]

RECURSIVE Offset(_, _)
\* Row-major position of idx in a tensor of the given shape, from 0.
Offset(shape, idx) ==
    IF shape = <<>> THEN 0
    ELSE Offset(SubSeq(shape, 1, Len(shape) - 1), SubSeq(idx, 1, Len(idx) - 1))
             * shape[Len(shape)] + (idx[Len(idx)] - 1)

\* The tensor of the given shape whose cells hold base, base+1, ... in row-major order.
Iota(shape, base) ==
    Tensor(shape, [idx \in Indices(shape) |-> base + Offset(shape, idx)])

Scalar(n) == Tensor(<<>>, [idx \in {<<>>} |-> n])

\* Elementwise m * t + c.
Affine(t, m, c) == Tensor(t.shape, [idx \in DOMAIN t.data |-> m * t.data[idx] + c])

(***************************************************************************)
(* The callables of the model, elementwise on tensors as the framework's   *)
(* ops are: inc(y) = y + 1, dbl(y) = 2 * y, add(y, a) = y + a.  A call     *)
(* with the wrong number of arguments, with a non-numeric argument, or of  *)
(* an object that is no callable raises TypeError, as Python does.         *)
(***************************************************************************)
Call(fn, a) ==
    IF ~callable(fn) THEN Raise("TypeError", "object is not callable")
    ELSE IF fn.name = "inc" THEN
        IF Len(a) = 1 THEN Return(Affine(a[1], 1, 1))
        ELSE Raise("TypeError", "wrong number of arguments")
    ELSE IF fn.name = "dbl" THEN
        IF Len(a) = 1 THEN Return(Affine(a[1], 2, 0))
        ELSE Raise("TypeError", "wrong number of arguments")
    ELSE \* add
        IF Len(a) # 2 THEN Raise("TypeError", "wrong number of arguments")
        ELSE IF a[2].tag # "int" THEN Raise("TypeError", "unsupported operand")
        ELSE Return(Affine(a[1], 1, a[2].val))

(***************************************************************************)
(* ops.setup                                                               *)
(***************************************************************************)
\* A likely slip: the tuple's extra arguments are not passed on.
setup_body_drops_args(y, w) ==
    IF callable(w) THEN Call(w, <<y>>)
    ELSE IF IsTupleOrList(w) THEN
        IF Len(w.items) > 0 THEN Call(w.items[1], <<y>>) ELSE Return(y)
    ELSE IF w = None THEN Return(y)
    ELSE RaiseAbout("ValueError", "%s is not callable.", w)

\* A likely slip: an unrecognised entry is skipped instead of rejected.
setup_body_skips_unknown(y, w) ==
    IF callable(w) THEN Call(w, <<y>>)
    ELSE IF IsTupleOrList(w) THEN
        IF Len(w.items) > 0 THEN Call(w.items[1], <<y>> \o Tail(w.items)) ELSE Return(y)
    ELSE Return(y)

\* The body of setup's for loop for one widget w and running value y;
\* "continue" leaves y as it is.
setup_body(y, w) ==
    IF callable(w) THEN Call(w, <<y>>)
    ELSE IF IsTupleOrList(w) THEN
        IF Len(w.items) > 0
        THEN LET fn == w.items[1]
                 a == Tail(w.items)
             IN  Call(fn, <<y>> \o a)
        ELSE Return(y)
    ELSE IF w = None THEN Return(y)
    ELSE RaiseAbout("ValueError", "%s is not callable.", w)

RECURSIVE setup_loop(_, _, _)
\* for w in widget_list, from the k-th entry on; an exception ends the loop.
setup_loop(y, widget_list, k) ==
    IF k > Len(widget_list) THEN Return(y)
    ELSE LET r == setup_body(y, widget_list[k])
         IN  IF r.st = "ok" THEN setup_loop(r.v, widget_list, k + 1) ELSE r

\* A likely slip: a lone widget is iterated over instead of being wrapped.
setup_without_wrapping(x, widget_list) ==
    IF ~IsTupleOrList(widget_list) THEN Raise("TypeError", "object is not iterable")
    ELSE setup_loop(x, widget_list.items, 1)

setup(x, widget_list) ==
    LET wl == IF ~IsTupleOrList(widget_list) THEN <<widget_list>>
              ELSE widget_list.items
    IN  setup_loop(x, wl, 1)

(***************************************************************************)
(* Initial state: nothing has been called.                                 *)
(***************************************************************************)
Init ==
    /\ pc = "idle"
    /\ args = NoValue
    /\ ret = NoValue
    /\ step = 0
    /\ state = NoValue
    /\ outs = <<>>
    /\ stdout = <<>>

SeqsUpTo(S, n) == UNION {[1..k -> S] : k \in 0..n}

(***************************************************************************)
(* Calls of setup.  The widgets given: the three callables, None, an int   *)
(* (no widget), the empty tuple, tuples and a list (fn, *args) with the    *)
(* right and the wrong number of arguments, and a tuple whose head is no   *)
(* callable.  widget_list is a list or a tuple of them, or a lone object.  *)
(***************************************************************************)
Widgets ==
    { Fn("inc"), Fn("dbl"), Fn("add"), None, Int_(2),
      Tuple_(<<>>), Tuple_(<<Fn("inc")>>), Tuple_(<<Fn("add"), Int_(2)>>),
      Tuple_(<<Fn("inc"), Int_(2)>>), Tuple_(<<Int_(2)>>),
      List_(<<Fn("add"), Int_(2)>>) }

LoneWidgets == {Fn("inc"), Fn("dbl"), Fn("add"), None, Int_(2)}

WidgetListArgs ==
    {List_(s) : s \in SeqsUpTo(Widgets, MaxWidgets)}
        \cup {Tuple_(s) : s \in SeqsUpTo(Widgets, MaxWidgets)}
        \cup LoneWidgets

SetupCall ==
    /\ pc = "idle"
    /\ \E x \in {Scalar(n) : n \in 0..MaxVal}, widget_list \in WidgetListArgs :
           /\ args' = [x |-> x, widget_list |-> widget_list]
           /\ ret' = setup(x, widget_list)
    /\ pc' = "done"
    /\ UNCHANGED <<step, state, outs, stdout>>

SpecSetup == Init /\ [][SetupCall]_vars

(***************************************************************************)
(* What the properties of setup are stated with.                           *)
(***************************************************************************)
\* The entry forms setup accepts: a callable, a tuple or list, None.
AcceptedWidget(w) == callable(w) \/ IsTupleOrList(w) \/ w = None

\* The map one accepted entry stands for.
WidgetMap(w, y) ==
    CASE callable(w) -> Call(w, <<y>>)
      [] IsTupleOrList(w) /\ w.items # <<>> -> Call(Head(w.items), <<y>> \o Tail(w.items))
      [] OTHER -> Return(y)

RECURSIVE WidgetFold(_, _)
\* The left-to-right fold of the entries ws over x, by its last entry:
\* fold(x, ws \o <<w>>) = map of w at fold(x, ws); a raised exception stays.
WidgetFold(x, ws) ==
    IF ws = <<>> THEN Return(x)
    ELSE LET before == WidgetFold(x, SubSeq(ws, 1, Len(ws) - 1))
         IN  IF before.st = "ok" THEN WidgetMap(ws[Len(ws)], before.v) ELSE before

SpecExample == <<Fn("inc"), Tuple_(<<Fn("add"), Int_(2)>>), None>>

\* C1: setup(x, widget_list) is the left-to-right fold of the entries over x
\* whenever every entry is a callable, a tuple/list or None; the empty list
\* returns x, and setup(x, [inc, (add, 2), None]) = add(inc(x), 2) = x + 3.
C1_SetupIsFold ==
    (/\ pc = "done"
     /\ IsTupleOrList(args.widget_list)
     /\ \A k \in DOMAIN args.widget_list.items : AcceptedWidget(args.widget_list.items[k]))
    => /\ ret = WidgetFold(args.x, args.widget_list.items)
       /\ args.widget_list.items = <<>> => ret = Return(args.x)
       /\ args.widget_list.items = SpecExample
              => ret = Return(Affine(args.x, 1, 3))

C1_Witness ==
    /\ pc = "done"
    /\ args.x = Scalar(1)
    /\ args.widget_list = List_(SpecExample)
    /\ ret = Return(Scalar(4))

\* C2: when the widget sequence holds an entry that is no callable, no
\* tuple/list and not None, setup returns no value; once the fold reaches the
\* first such entry (the entries before it raised nothing) setup raises
\* ValueError about that entry.  A lone object of that kind raises it too.
C2_UnknownWidgetRaises ==
    pc = "done" =>
        /\ IsTupleOrList(args.widget_list) =>
              LET ws == args.widget_list.items
              IN  \A k \in DOMAIN ws :
                     (~AcceptedWidget(ws[k]) /\ \A j \in 1..(k - 1) : AcceptedWidget(ws[j]))
                     => /\ ret.st = "raise"
                        /\ WidgetFold(args.x, SubSeq(ws, 1, k - 1)).st = "ok"
                              => ret = RaiseAbout("ValueError", "%s is not callable.", ws[k])
        /\ (~IsTupleOrList(args.widget_list) /\ ~AcceptedWidget(args.widget_list))
              => ret = RaiseAbout("ValueError", "%s is not callable.", args.widget_list)

C2_Witness ==
    /\ pc = "done"
    /\ args.widget_list = List_(<<Fn("inc"), Int_(2), Fn("dbl")>>)
    /\ ret = RaiseAbout("ValueError", "%s is not callable.", Int_(2))

\* C3 as stated: every widget w that is a callable, a tuple (callable,
\* *extra_args) the callable takes, or None, and is no list, passed alone,
\* gives setup(x, w) = setup(x, [w]).
C3_LoneWidgetWrapped_AsStated ==
    (/\ pc = "done"
     /\ \/ callable(args.widget_list)
        \/ args.widget_list = None
        \/ /\ args.widget_list.tag = "tuple"
           /\ args.widget_list.items # <<>>
           /\ callable(Head(args.widget_list.items))
           /\ setup(args.x, List_(<<args.widget_list>>)).st = "ok")
    => ret = setup(args.x, List_(<<args.widget_list>>))

\* C3 as amended: every object w that is neither a list nor a tuple, passed
\* alone, gives setup(x, w) = setup(x, [w]); a tuple passed as widget_list is
\* taken as the widget sequence itself, each of its items a widget.
C3_LoneWidgetWrapped ==
    pc = "done" =>
        /\ ~IsTupleOrList(args.widget_list)
              => ret = setup(args.x, List_(<<args.widget_list>>))
        /\ args.widget_list.tag = "tuple"
              => ret = setup(args.x, List_(args.widget_list.items))

C3_Witness ==
    /\ pc = "done"
    /\ args.x = Scalar(2)
    /\ args.widget_list = Fn("dbl")
    /\ ret = Return(Scalar(4))

(***************************************************************************)
(* ops.transpose_sequence                                                  *)
(***************************************************************************)
\* tf.transpose(t, perm): axis k of the result is axis perm[k] of t.  perm
\* holds 0-based axes at 0-based positions, as the Python list does.
tf_transpose(t, perm) ==
    LET r == Len(t.shape)
        shape == [k \in 1..r |-> t.shape[perm[k - 1] + 1]]
        from(idx) == [m \in 1..r |-> idx[CHOOSE k \in 1..r : perm[k - 1] + 1 = m]]
    IN  Tensor(shape, [idx \in Indices(shape) |-> t.data[from(idx)]])

\* A likely slip: the sequence axis is moved to the front and the axes before
\* it shift back by one, instead of being exchanged with axis 0.
transpose_perm_moves_axis(rank, seq_axis) ==
    [i \in 0..(rank - 1) |->
        IF i = 0 THEN seq_axis ELSE IF i <= seq_axis THEN i - 1 ELSE i]

\* perm = [i for i in range(rank)]; perm[0], perm[seq_axis] = seq_axis, 0
\* (the right-hand side first, then the two stores from left to right).
transpose_perm(rank, seq_axis) ==
    LET perm0 == [i \in 0..(rank - 1) |-> i]
        perm1 == [perm0 EXCEPT ![0] = seq_axis]
    IN  [perm1 EXCEPT ![seq_axis] = 0]

transpose_sequence(seq, seq_axis) ==
    LET rank == Len(seq.shape)
    IN  IF seq_axis \notin 0..(rank - 1)
        THEN Raise("IndexError", "list assignment index out of range")
        ELSE Return(tf_transpose(seq, transpose_perm(rank, seq_axis)))

(***************************************************************************)
(* Calls of transpose_sequence, and a second call on the first's result    *)
(* with the same axis.  The tensors given hold a different number in every *)
(* cell, so that any two arrangements of their cells differ.               *)
(***************************************************************************)
ShapesOfRank(r, maxDim) == [1..r -> 1..maxDim]

TransposeInputs ==
    {Iota(shape, base) :
        shape \in UNION {ShapesOfRank(r, MaxDim) : r \in 1..MaxRank},
        base \in 0..MaxVal}

TransposeCall ==
    /\ pc = "idle"
    /\ \E seq \in TransposeInputs, seq_axis \in 0..(MaxRank - 1) :
           /\ args' = [seq |-> seq, seq_axis |-> seq_axis]
           /\ ret' = transpose_sequence(seq, seq_axis)
    /\ pc' = "once"
    /\ UNCHANGED <<step, state, outs, stdout>>

TransposeAgain ==
    /\ pc = "once"
    /\ ret.st = "ok"
    /\ ret' = transpose_sequence(ret.v, args.seq_axis)
    /\ pc' = "done"
    /\ UNCHANGED <<args, step, state, outs, stdout>>

SpecTranspose == Init /\ [][TransposeCall \/ TransposeAgain]_vars

\* idx with its first component and its component of (0-based) axis a exchanged.
Exchanged(idx, a) == [idx EXCEPT ![1] = idx[a + 1], ![a + 1] = idx[1]]

\* C6: for a tensor of rank >= 2 and seq_axis in 0..rank-1, transpose_sequence
\* exchanges axis 0 and axis seq_axis and leaves every other axis in place (the
\* extents and every cell), and a second call with the same axis gives back the
\* original tensor.
C6_TransposeInvolution ==
    (/\ pc \in {"once", "done"}
     /\ Len(args.seq.shape) >= 2
     /\ args.seq_axis \in 0..(Len(args.seq.shape) - 1))
    => /\ pc = "once" =>
             /\ ret.st = "ok"
             /\ ret.v.shape = Exchanged(args.seq.shape, args.seq_axis)
             /\ \A idx \in Indices(args.seq.shape) :
                    ret.v.data[Exchanged(idx, args.seq_axis)] = args.seq.data[idx]
       /\ pc = "done" => ret = Return(args.seq)

C6_Witness ==
    /\ pc = "done"
    /\ args.seq = Iota(<<2, 1, 2>>, 0)
    /\ args.seq_axis = 2
    /\ ret = Return(args.seq)

(***************************************************************************)
(* ops.setup_sequence                                                      *)
(***************************************************************************)
\* The i-th slice of t along its leading axis, and the tensor whose slices
\* along the leading axis are the tensors ts (what map_fn and scan unpack
\* and pack).
Slice(t, i) ==
    Tensor(Tail(t.shape), [idx \in Indices(Tail(t.shape)) |-> t.data[<<i>> \o idx]])

Stack(ts) ==
    LET shape == <<Len(ts)>> \o ts[1].shape
    IN  Tensor(shape, [idx \in Indices(shape) |-> ts[idx[1]].data[Tail(idx)]])

tf_zeros(shape) == Tensor(shape, [idx \in Indices(shape) |-> 0])

\* A recurrent cell: an object with a state_size and a setup(x, state) method
\* from x of shape (batch,) and state of shape (batch, state_size) to the new
\* state.  Two cells are given: "horner" doubles the state and adds the
\* input and the unit's number, "sum" adds the input to the state.
Cell(kind, state_size) == [tag |-> "cell", kind |-> kind, state_size |-> state_size]

cell_setup(cell, x, st) ==
    Tensor(st.shape,
           [idx \in DOMAIN st.data |->
               IF cell.kind = "horner"
               THEN 2 * st.data[idx] + x.data[<<idx[1]>>] + idx[2]
               ELSE st.data[idx] + x.data[<<idx[1]>>]])

\* A likely slip: every output is computed from the first slice.
map_fn_setup_first_slice(seq, widget_list) ==
    LET r == setup(Slice(seq, 1), widget_list)
    IN  IF r.st # "ok" THEN r
        ELSE Return(Stack([i \in 1..seq.shape[1] |-> r.v]))

\* tf.map_fn(fn=lambda elem: setup(elem, widget_list), elems=seq): fn on every
\* slice along the leading axis, the results packed; fn's exception is the
\* call's.
map_fn_setup(seq, widget_list) ==
    LET n == seq.shape[1]
        r == [i \in 1..n |-> setup(Slice(seq, i), widget_list)]
    IN  IF \E i \in 1..n : r[i].st # "ok"
        THEN r[CHOOSE i \in 1..n : r[i].st # "ok" /\ \A j \in 1..(i - 1) : r[j].st = "ok"]
        ELSE Return(Stack([i \in 1..n |-> r[i].v]))

\* A likely slip: the cell is fed a fresh zero state at every step.
scan_fn_forgets_state(acc, elem, widget_list, cell) ==
    LET r == setup(elem, widget_list)
    IN  IF r.st = "ok" THEN Return(cell_setup(cell, r.v, tf_zeros(acc.shape))) ELSE r

\* The function given to tf.scan: lambda acc, elem: cell.setup(setup(elem, widget_list), acc)
scan_fn(acc, elem, widget_list, cell) ==
    LET r == setup(elem, widget_list)
    IN  IF r.st = "ok" THEN Return(cell_setup(cell, r.v, acc)) ELSE r

\* batch_size = tf.shape(seq)[1]; init_state = tf.zeros((batch_size, cell.state_size))
default_init_state(seq, cell) == tf_zeros(<<seq.shape[2], cell.state_size>>)

\* if transpose_out: y = transpose_sequence(y); return y
setup_sequence_return(y, transpose_out) ==
    IF transpose_out THEN transpose_sequence(y, 1) ELSE Return(y)

(***************************************************************************)
(* Calls of setup_sequence.  T and B are the sequence length and the batch *)
(* size; with transpose_in the tensor is given batch-major.  Without a     *)
(* cell the call is one step; with a cell tf.scan consumes one element of  *)
(* the sequence per step.                                                  *)
(***************************************************************************)
SequenceWidgetLists ==
    { List_(<<>>), List_(<<Fn("inc")>>),
      List_(<<Fn("dbl"), Tuple_(<<Fn("add"), Int_(2)>>)>>),
      Fn("dbl"), List_(<<Fn("inc"), Int_(2)>>) }

Cells == {Cell(kind, s) : kind \in {"horner", "sum"}, s \in 1..MaxStateSize}

SetupSequenceCall ==
    /\ pc = "idle"
    /\ \E T \in 1..MaxSeqLen, B \in 1..MaxBatch, base \in 0..MaxVal,
          widget_list \in SequenceWidgetLists,
          transpose_in \in BOOLEAN, transpose_out \in BOOLEAN,
          cell \in {None} \cup Cells, given \in BOOLEAN :
          LET seq0 == Iota(IF transpose_in THEN <<B, T>> ELSE <<T, B>>, base)
              init_state0 ==
                  IF ~given THEN None
                  ELSE Iota(<<B, IF cell = None THEN 1 ELSE cell.state_size>>, 1)
              t == IF transpose_in THEN transpose_sequence(seq0, 1) ELSE Return(seq0)
              a == [seq0 |-> seq0, widget_list |-> widget_list,
                    transpose_in |-> transpose_in, transpose_out |-> transpose_out,
                    cell |-> cell, init_state0 |-> init_state0]
          IN  IF t.st # "ok"
              THEN /\ args' = a
                   /\ ret' = t
                   /\ pc' = "done"
                   /\ UNCHANGED <<step, state, outs>>
              ELSE IF cell = None
              THEN LET y == map_fn_setup(t.v, widget_list)
                   IN  /\ args' = a @@ [seq |-> t.v]
                       /\ ret' = IF y.st = "ok"
                                 THEN setup_sequence_return(y.v, transpose_out) ELSE y
                       /\ pc' = "done"
                       /\ UNCHANGED <<step, state, outs>>
              ELSE /\ args' = a @@ [seq |-> t.v]
                   /\ state' = IF init_state0 = None
                               THEN default_init_state(t.v, cell) ELSE init_state0
                   /\ step' = 0
                   /\ outs' = <<>>
                   /\ pc' = "scan"
                   /\ UNCHANGED ret
    /\ UNCHANGED stdout

\* One iteration of tf.scan: the next element, in order, and the accumulator.
ScanStep ==
    /\ pc = "scan"
    /\ step < args.seq.shape[1]
    /\ LET r == scan_fn(state, Slice(args.seq, step + 1), args.widget_list, args.cell)
       IN  IF r.st = "ok"
           THEN /\ state' = r.v
                /\ outs' = Append(outs, r.v)
                /\ step' = step + 1
                /\ UNCHANGED <<pc, ret>>
           ELSE /\ ret' = r
                /\ pc' = "done"
                /\ UNCHANGED <<step, state, outs>>
    /\ UNCHANGED <<args, stdout>>

\* tf.scan is through the sequence: the outputs are packed and returned.
ScanReturn ==
    /\ pc = "scan"
    /\ step = args.seq.shape[1]
    /\ ret' = setup_sequence_return(Stack(outs), args.transpose_out)
    /\ pc' = "done"
    /\ UNCHANGED <<args, step, state, outs, stdout>>

SpecSequence == Init /\ [][SetupSequenceCall \/ ScanStep \/ ScanReturn]_vars

(***************************************************************************)
(* What the properties of setup_sequence are stated with.                  *)
(***************************************************************************)
\* The slices of the sequence, sequence axis leading, in order.
Elems == [i \in 1..args.seq.shape[1] |-> Slice(args.seq, i)]

\* Whether setup raises nothing on every slice.
WidgetsApply == \A i \in DOMAIN Elems : setup(Elems[i], args.widget_list).st = "ok"

\* The state before step 0: the init_state given, or zeros (batch, state_size).
StateBeforeScan ==
    IF args.init_state0 = None
    THEN Tensor(<<args.seq.shape[2], args.cell.state_size>>,
                [idx \in (1..args.seq.shape[2]) \X (1..args.cell.state_size) |-> 0])
    ELSE args.init_state0

RECURSIVE ScanOutput(_)
\* output_i as a function of the first i slices alone:
\* output_i = cell.setup(setup(elem_i, widget_list), output_(i-1)).
ScanOutput(prefix) ==
    LET i == Len(prefix)
        before == IF i = 1 THEN StateBeforeScan ELSE ScanOutput(SubSeq(prefix, 1, i - 1))
    IN  cell_setup(args.cell, setup(prefix[i], args.widget_list).v, before)

\* The number of outputs returned, and the i-th of them, read along the
\* sequence axis of the result (axis 1 with transpose_out, else axis 0).
NumOutputs == ret.v.shape[IF args.transpose_out THEN 2 ELSE 1]

OutputAt(i) ==
    IF args.transpose_out
    THEN LET shape == <<ret.v.shape[1]>> \o SubSeq(ret.v.shape, 3, Len(ret.v.shape))
         IN  Tensor(shape, [idx \in Indices(shape) |->
                               ret.v.data[<<idx[1], i>> \o Tail(idx)]])
    ELSE Slice(ret.v, i)

\* C4: with a cell, the scan consumes the slices in order, one output per
\* slice and none skipped: after k steps there are k outputs, output_i is
\* cell.setup(setup(elem_i, widget_list), output_(i-1)) of the first i slices
\* alone, the state before step 0 being init_state or zeros shaped
\* (batch_size, cell.state_size); the call returns exactly n outputs.
C4_ScanLeftToRight ==
    (pc \in {"scan", "done"} /\ args.cell # None) =>
        /\ pc = "scan" =>
              /\ step <= Len(Elems)
              /\ Len(outs) = step
              /\ state = IF step = 0 THEN StateBeforeScan ELSE outs[step]
              /\ \A i \in 1..step : outs[i] = ScanOutput(SubSeq(Elems, 1, i))
        /\ pc = "done" =>
              IF WidgetsApply
              THEN /\ ret.st = "ok"
                   /\ NumOutputs = Len(Elems)
                   /\ \A i \in DOMAIN Elems : OutputAt(i) = ScanOutput(SubSeq(Elems, 1, i))
              ELSE ret.st = "raise"

C4_Witness ==
    /\ pc = "done"
    /\ args.cell = Cell("horner", 2)
    /\ args.init_state0 = None
    /\ ~args.transpose_in /\ ~args.transpose_out
    /\ args.seq = Iota(<<3, 2>>, 0)
    /\ args.widget_list = List_(<<Fn("inc")>>)
    /\ ret.st = "ok"
    /\ ret.v.shape = <<3, 2, 2>>
    /\ ret.v.data[<<1, 1, 1>>] = 2 /\ ret.v.data[<<2, 1, 1>>] = 8
    /\ ret.v.data[<<3, 2, 2>>] = 36

\* C5: without a cell, the call returns one output per slice, output_i =
\* setup(elem_i, widget_list), a function of slice i alone; no recurrent state
\* is kept and init_state plays no part.
C5_MapPerStep ==
    (pc = "done" /\ args.cell = None) =>
        /\ state = NoValue /\ outs = <<>> /\ step = 0
        /\ IF WidgetsApply
           THEN /\ ret.st = "ok"
                /\ NumOutputs = Len(Elems)
                /\ \A i \in DOMAIN Elems :
                       OutputAt(i) = setup(Elems[i], args.widget_list).v
           ELSE ret.st = "raise"

C5_Witness ==
    /\ pc = "done"
    /\ args.cell = None
    /\ args.init_state0 # None
    /\ args.seq = Iota(<<3, 2>>, 1)
    /\ args.widget_list = List_(<<Fn("dbl"), Tuple_(<<Fn("add"), Int_(2)>>)>>)
    /\ ~args.transpose_out
    /\ ret = Return(Affine(args.seq, 2, 2))

(***************************************************************************)
(* utils.one_hot.  A numpy array is the sequence of its entries (rank 1)   *)
(* or of its rows (rank 2).                                                *)
(***************************************************************************)
Bool_(b) == [tag |-> "bool", val |-> b]
Str_(text) == [tag |-> "str", text |-> text]
Float_(n) == [tag |-> "float", val |-> n]

\* isinstance(index, int): bool is a subclass of int.
IsInt(index) == index.tag \in {"int", "bool"}

\* np.zeros(shape, dtype) for a shape of one or two extents.
np_zeros(shape) ==
    IF \E k \in DOMAIN shape : shape[k] < 0
    THEN Raise("ValueError", "negative dimensions are not allowed")
    ELSE IF Len(shape) = 1 THEN Return([p \in 1..shape[1] |-> 0])
    ELSE Return([j \in 1..shape[1] |-> [p \in 1..shape[2] |-> 0]])

\* The 0-based position an integer index addresses on an axis of extent n,
\* negative indices counting from the end; -1 when it addresses none.
Position(i, n) == IF 0 <= i /\ i < n THEN i ELSE IF -n <= i /\ i < 0 THEN n + i ELSE -1

\* ret[index] = 1 on a rank 1 array: an integer addresses one entry or raises
\* IndexError; a bool is a mask over the whole array.
np_setitem(arr, index) ==
    IF index.tag = "bool"
    THEN Return(IF index.val THEN [p \in DOMAIN arr |-> 1] ELSE arr)
    ELSE IF Position(index.val, Len(arr)) = -1
    THEN Raise("IndexError", "index is out of bounds")
    ELSE Return([arr EXCEPT ![Position(index.val, Len(arr)) + 1] = 1])

\* A likely slip: ret[:, index] = 1.0, every row gets every index.
np_setitem_every_row(arr, index) ==
    IF \E j \in DOMAIN index : Position(index[j].val, Len(arr[j])) = -1
    THEN Raise("IndexError", "index is out of bounds")
    ELSE Return([j \in DOMAIN arr |->
                    [p \in DOMAIN arr[j] |->
                        IF \E i \in DOMAIN index : p = Position(index[i].val, Len(arr[j])) + 1
                        THEN 1 ELSE 0]])

\* ret[range(seq_len), index] = 1.0 on a rank 2 array: entry index[j] of row j.
np_setitem_rows(arr, index) ==
    IF \E j \in DOMAIN index : Position(index[j].val, Len(arr[j])) = -1
    THEN Raise("IndexError", "index is out of bounds")
    ELSE Return([j \in DOMAIN arr |->
                    [arr[j] EXCEPT ![Position(index[j].val, Len(arr[j])) + 1] = 1]])

\* A likely slip: only a list is taken as a sequence of indices.
one_hot_lists_only(index, dims) ==
    IF IsInt(index)
    THEN LET ret0 == np_zeros(<<dims>>)
         IN  IF ret0.st = "ok" THEN np_setitem(ret0.v, index) ELSE ret0
    ELSE IF index.tag = "list"
    THEN LET ret0 == np_zeros(<<Len(index.items), dims>>)
         IN  IF ret0.st = "ok" THEN np_setitem_rows(ret0.v, index.items) ELSE ret0
    ELSE Raise("ValueError", "index should be int or list(tuple) of int.")

one_hot(index, dims) ==
    IF IsInt(index)
    THEN LET ret0 == np_zeros(<<dims>>)
         IN  IF ret0.st = "ok" THEN np_setitem(ret0.v, index) ELSE ret0
    ELSE IF IsTupleOrList(index)
    THEN LET seq_len == Len(index.items)
             ret0 == np_zeros(<<seq_len, dims>>)
         IN  IF ret0.st = "ok" THEN np_setitem_rows(ret0.v, index.items) ELSE ret0
    ELSE Raise("ValueError", "index should be int or list(tuple) of int.")

(***************************************************************************)
(* Calls of one_hot: an int inside and outside the vector, a bool, a list  *)
(* or tuple of ints, and objects of other types; dims from -1.             *)
(***************************************************************************)
IndexArgs ==
    {Int_(n) : n \in (-MaxDims - 1)..MaxDims}
        \cup {Bool_(b) : b \in BOOLEAN}
        \cup {List_(s) : s \in SeqsUpTo({Int_(n) : n \in -1..MaxDims}, MaxIndexLen)}
        \cup {Tuple_(s) : s \in SeqsUpTo({Int_(n) : n \in -1..MaxDims}, MaxIndexLen)}
        \cup {None, Str_("2"), Float_(2)}

OneHotCall ==
    /\ pc = "idle"
    /\ \E index \in IndexArgs, dims \in -1..MaxDims :
           /\ args' = [index |-> index, dims |-> dims]
           /\ ret' = one_hot(index, dims)
    /\ pc' = "done"
    /\ UNCHANGED <<step, state, outs, stdout>>

SpecOneHot == Init /\ [][OneHotCall]_vars

\* Whether the integer i addresses an entry of a vector of length n.
InVector(i, n) == -n <= i /\ i < n

\* v is the vector of length n with a single 1, at the position i addresses
\* (position i, or n + i for a negative i as numpy counts), and 0 elsewhere.
IsOneHot(v, i, n) ==
    /\ Len(v) = n
    /\ \A p \in 1..n : v[p] = IF p - 1 = (IF i < 0 THEN n + i ELSE i) THEN 1 ELSE 0
    /\ Cardinality({p \in 1..n : v[p] = 1}) = 1

\* C7: for an int index that addresses an entry of a vector of length dims,
\* one_hot returns the vector of length dims with a single 1 at position index
\* and 0 elsewhere; for a list or tuple of k such indices it returns k rows,
\* row j the one-hot vector of index[j].  one_hot(2, 5) = [0,0,1,0,0] and
\* one_hot([0,2], 3) = [[1,0,0],[0,0,1]].
C7_OneHot ==
    pc = "done" =>
        /\ (args.index.tag = "int" /\ InVector(args.index.val, args.dims))
              => ret.st = "ok" /\ IsOneHot(ret.v, args.index.val, args.dims)
        /\ (/\ IsTupleOrList(args.index)
            /\ args.dims >= 0
            /\ \A j \in DOMAIN args.index.items :
                   InVector(args.index.items[j].val, args.dims))
              => /\ ret.st = "ok"
                 /\ Len(ret.v) = Len(args.index.items)
                 /\ \A j \in DOMAIN args.index.items :
                        IsOneHot(ret.v[j], args.index.items[j].val, args.dims)
        /\ (args.index = Int_(2) /\ args.dims = 5) => ret = Return(<<0, 0, 1, 0, 0>>)
        /\ (args.index = List_(<<Int_(0), Int_(2)>>) /\ args.dims = 3)
              => ret = Return(<< <<1, 0, 0>>, <<0, 0, 1>> >>)

C7_Witness ==
    /\ pc = "done"
    /\ args.index = List_(<<Int_(0), Int_(2)>>)
    /\ args.dims = 3
    /\ ret = Return(<< <<1, 0, 0>>, <<0, 0, 1>> >>)

\* C8 as stated: one_hot raises ValueError exactly when index is neither an
\* int nor a list/tuple, and for no other reason.
C8_ValueErrorOnlyForIndexType ==
    pc = "done" =>
        ((ret.st = "raise" /\ ret.exc = "ValueError")
            <=> ~(IsInt(args.index) \/ IsTupleOrList(args.index)))

\* C8 as amended: one_hot raises its own ValueError ("index should be int or
\* list(tuple) of int.") exactly when index is neither an int nor a
\* list/tuple, and returns no array then; with an int or list/tuple index a
\* ValueError is the array allocation's, raised for a negative dims.
C8_OwnValueErrorOnlyForIndexType ==
    pc = "done" =>
        /\ (ret = Raise("ValueError", "index should be int or list(tuple) of int."))
              <=> ~(IsInt(args.index) \/ IsTupleOrList(args.index))
        /\ (/\ ret.st = "raise" /\ ret.exc = "ValueError"
            /\ (IsInt(args.index) \/ IsTupleOrList(args.index)))
              => /\ args.dims < 0
                 /\ ret.msg = "negative dimensions are not allowed"

C8_Witness ==
    /\ pc = "done"
    /\ args.index = Str_("2")
    /\ args.dims = 3
    /\ ret = Raise("ValueError", "index should be int or list(tuple) of int.")

(***************************************************************************)
(* utils.print_progress.  A write of print is the text and the end that    *)
(* follows it; the text is kept as the values formatted into it.           *)
(***************************************************************************)
DefaultInterval == 1000

\* '%s [%d/%d]... %.2f%%' % (msg, current_loop, num_loops, current_loop / num_loops * 100):
\* the percentage in hundredths, rounded to the nearest.
ProgressText(msg, current_loop, num_loops) ==
    [msg |-> msg, current |-> current_loop, total |-> num_loops,
     percent |-> (20000 * current_loop + num_loops) \div (2 * num_loops)]

EmptyText == [msg |-> "", current |-> 0, total |-> 0, percent |-> 0]

\* A likely slip: the newline is written under the first condition too.
print_progress_newline_per_line(current_loop, num_loops, msg, interval) ==
    IF current_loop % interval = 0 \/ current_loop = num_loops
    THEN << [text |-> ProgressText(msg, current_loop, num_loops), end |-> "\r"],
            [text |-> EmptyText, end |-> "\n"] >>
    ELSE <<>>

\* The writes of one call, in order.
print_progress(current_loop, num_loops, msg, interval) ==
    (IF current_loop % interval = 0 \/ current_loop = num_loops
     THEN << [text |-> ProgressText(msg, current_loop, num_loops), end |-> "\r"] >>
     ELSE <<>>)
    \o
    (IF current_loop = num_loops
     THEN << [text |-> EmptyText, end |-> "\n"] >>
     ELSE <<>>)

(***************************************************************************)
(* A caller's loop: print_progress once per iteration, current_loop going  *)
(* up by one from 0 or 1 to num_loops.                                     *)
(***************************************************************************)
ProgressLoopStart ==
    /\ pc = "idle"
    /\ \E num_loops \in 1..MaxLoops, interval \in (1..MaxInterval) \cup {DefaultInterval},
          first \in {0, 1} :
           /\ args' = [num_loops |-> num_loops, msg |-> "Processing",
                       interval |-> interval, first |-> first]
           /\ step' = first - 1
    /\ pc' = "loop"
    /\ UNCHANGED <<ret, state, outs, stdout>>

PrintProgressCall ==
    /\ pc = "loop"
    /\ step < args.num_loops
    /\ step' = step + 1
    /\ stdout' = stdout \o print_progress(step + 1, args.num_loops, args.msg, args.interval)
    /\ pc' = IF step + 1 = args.num_loops THEN "done" ELSE "loop"
    /\ UNCHANGED <<args, ret, state, outs>>

SpecProgress == Init /\ [][ProgressLoopStart \/ PrintProgressCall]_vars

\* The positions of stdout holding a progress line, and those holding a newline.
ProgressLines == {k \in DOMAIN stdout : stdout[k].end = "\r"}
Newlines == {k \in DOMAIN stdout : stdout[k].end = "\n"}

\* C9: over the loop, a progress line ending in a carriage return is written
\* on exactly the calls whose current_loop is a multiple of interval or equals
\* num_loops, once per such call and in the calls' order; a newline is written
\* exactly once over the whole loop, by the call with current_loop = num_loops
\* and after that call's progress line.
C9_ProgressLines ==
    pc \in {"loop", "done"} =>
        /\ \A c \in args.first..step :
               Cardinality({k \in ProgressLines : stdout[k].text.current = c})
                   = IF c % args.interval = 0 \/ c = args.num_loops THEN 1 ELSE 0
        /\ \A k \in ProgressLines :
               /\ stdout[k].text.current \in args.first..step
               /\ stdout[k].text.total = args.num_loops
               /\ stdout[k].text.msg = args.msg
               /\ \A l \in ProgressLines :
                      k < l => stdout[k].text.current < stdout[l].text.current
        /\ Cardinality(Newlines) = IF step = args.num_loops THEN 1 ELSE 0
        /\ step = args.num_loops =>
               /\ Newlines = {Len(stdout)}
               /\ Len(stdout) - 1 \in ProgressLines
               /\ stdout[Len(stdout) - 1].text.current = args.num_loops
               /\ stdout[Len(stdout) - 1].text.percent = 10000
        /\ (pc = "done") <=> (step = args.num_loops)

C9_Witness ==
    /\ pc = "done"
    /\ args.num_loops = 5 /\ args.interval = 2 /\ args.first = 1
    /\ Len(stdout) = 4
    /\ stdout[1].text.current = 2 /\ stdout[2].text.current = 4
    /\ stdout[3].text.current = 5 /\ stdout[3].end = "\r"
    /\ stdout[4].end = "\n"

(***************************************************************************)
(* ops.clip_gradient.  Norms of integer tensors are square roots, so the   *)
(* numbers of this part are kept exactly, as (n / d) * sqrt(r) with n / d  *)
(* in lowest terms and r square-free; d = 0 stands for infinity (1 / 0).   *)
(* A gradient is the sequence of its entries.                              *)
(***************************************************************************)
Abs(k) == IF k < 0 THEN -k ELSE k

RECURSIVE GCD(_, _)
GCD(a, b) == IF b = 0 THEN a ELSE GCD(b, a % b)

\* The largest s with s * s dividing m, for m >= 1.
SquarePart(m) ==
    CHOOSE s \in 1..m :
        /\ m % (s * s) = 0
        /\ \A t \in (s + 1)..m : t * t > m \/ m % (t * t) # 0

Num(n, d, r) ==
    IF d = 0 THEN [n |-> 1, d |-> 0, r |-> 1]
    ELSE IF n = 0 \/ r = 0 THEN [n |-> 0, d |-> 1, r |-> 1]
    ELSE LET s == SquarePart(r)
             g == GCD(Abs(n * s), d)
         IN  [n |-> (n * s) \div g, d |-> d \div g, r |-> r \div (s * s)]

FromInt(k) == Num(k, 1, 1)
Mul(a, b) == Num(a.n * b.n, a.d * b.d, a.r * b.r)
Recip(a) == IF a.n = 0 THEN Num(1, 0, 1) ELSE Num(a.d, a.n * a.r, a.r)
\* For a, b >= 0: a <= b by their squares.
Leq(a, b) == a.n * a.n * a.r * b.d * b.d <= b.n * b.n * b.r * a.d * a.d
Minimum(a, b) == IF Leq(a, b) THEN a ELSE b

RECURSIVE SumOfSquares(_)
\* The sum of the squares of the numbers of a sequence, as <<numerator, denominator>>.
SumOfSquares(xs) ==
    IF xs = <<>> THEN <<0, 1>>
    ELSE LET rest == SumOfSquares(Tail(xs))
             x == Head(xs)
             p == x.n * x.n * x.r * rest[2] + rest[1] * x.d * x.d
             q == x.d * x.d * rest[2]
             g == GCD(p, q)
         IN  <<p \div g, q \div g>>

RECURSIVE Flatten(_)
Flatten(t_list) == IF t_list = <<>> THEN <<>> ELSE Head(t_list) \o Flatten(Tail(t_list))

\* tf.global_norm(t_list): the square root of the sum of the squares of all
\* entries of all tensors.
tf_global_norm(t_list) ==
    LET ss == SumOfSquares(Flatten(t_list))
    IN  Num(1, ss[2], ss[1] * ss[2])

\* A likely slip: the gradients are always rescaled to the norm max_norm.
clip_always_rescales(t_list, clip_norm) ==
    LET use_norm == tf_global_norm(t_list)
        scale == Mul(FromInt(clip_norm), Recip(use_norm))
    IN  << [i \in DOMAIN t_list |-> [j \in DOMAIN t_list[i] |-> Mul(t_list[i][j], scale)]],
           use_norm >>

\* tf.clip_by_global_norm(t_list, clip_norm), for clip_norm > 0:
\* scale = clip_norm * minimum(1 / use_norm, 1 / clip_norm); every tensor * scale
tf_clip_by_global_norm(t_list, clip_norm) ==
    LET use_norm == tf_global_norm(t_list)
        scale == Mul(FromInt(clip_norm),
                     Minimum(Recip(use_norm), Recip(FromInt(clip_norm))))
    IN  << [i \in DOMAIN t_list |-> [j \in DOMAIN t_list[i] |-> Mul(t_list[i][j], scale)]],
           use_norm >>

clip_gradient(pair_list, max_norm) ==
    LET grad_list0 == [i \in DOMAIN pair_list |-> pair_list[i][1]]
        clipped == tf_clip_by_global_norm(grad_list0, max_norm)
        grad_list == clipped[1]
        raw_grad == clipped[2]
        grad == tf_global_norm(grad_list)
    IN  Return(<< [i \in DOMAIN grad_list |-> <<grad_list[i], pair_list[i][2]>>],
                  raw_grad, grad >>)

(***************************************************************************)
(* Calls of clip_gradient: up to MaxPairs pairs, the gradients taken from  *)
(* a few integer tensors (zero ones among them), the i-th variable being   *)
(* variable i, and max_norm from 1.                                        *)
(***************************************************************************)
Gradients ==
    {<<3, 4>>, <<0>>, <<1, -2>>, <<-3>>, <<2, 2>>, <<0, 0>>}

ClipGradientCall ==
    /\ pc = "idle"
    /\ \E gs \in SeqsUpTo(Gradients, MaxPairs), max_norm \in 1..MaxNorm :
          LET pair_list ==
                  [i \in DOMAIN gs |->
                      << [j \in DOMAIN gs[i] |-> FromInt(gs[i][j])], [tag |-> "var", id |-> i] >>]
          IN  /\ args' = [pair_list |-> pair_list, max_norm |-> max_norm]
              /\ ret' = clip_gradient(pair_list, max_norm)
    /\ pc' = "done"
    /\ UNCHANGED <<step, state, outs, stdout>>

SpecClip == Init /\ [][ClipGradientCall]_vars

\* The places of the gradients' entries: <<pair, entry>>.
Places ==
    UNION {{<<i, j>> : j \in DOMAIN args.pair_list[i][1]} : i \in DOMAIN args.pair_list}

RECURSIVE IntSquares(_)
\* The sum of the squares of the integer entries of the gradients given.
IntSquares(xs) == IF xs = <<>> THEN 0 ELSE Head(xs).n * Head(xs).n + IntSquares(Tail(xs))

RawSquare == IntSquares(Flatten([i \in DOMAIN args.pair_list |-> args.pair_list[i][1]]))

====
